---- MODULE Spec2Model ----
(***************************************************************************)
(* Model of the cortextool_rule_namespace resource of                      *)
(* terraform-provider-cortextool (cortextool/resource_rule_namespace.go),  *)
(* together with the in-memory ruler client the acceptance tests run it    *)
(* against (cortextool/mock_cortexruleclient.go).                          *)
(*                                                                         *)
(* Texts.  A string handled by the resource is modelled by what a YAML     *)
(* decoder sees in it plus the two things an encoder changes:              *)
(*   kind  "yaml" for YAML text, "hex" for a SHA-256 digest printed with   *)
(*         %x, "panic" for the value of a call that panicked;              *)
(*   fmt   "user" for text as a person wrote it, "emit" for text in the    *)
(*         layout yaml.Marshal produces;                                   *)
(*   nl    whether the text ends with a newline;                           *)
(*   docs  the sequence of YAML documents of the text.                     *)
(* A document is [top, groups]: top says what the document's root is       *)
(*   "groups"  a mapping holding the key groups (and nothing unknown),     *)
(*   "empty"   the mapping {} ,                                            *)
(*   "unknown" a mapping with a key RuleNamespace does not have,           *)
(*   "seq"     a sequence of rule groups (no mapping around it).           *)
(* A rule group is [Name, Rules], a rule is [Alert, Expr].  Group names    *)
(* and expression texts are numbers ordered as the strings are ordered     *)
(* bytewise; name 0 is the empty string.                                   *)
(***************************************************************************)
EXTENDS Integers, Sequences, FiniteSets, TLC

VARIABLES
    storeRulesSHA256,   \* provider.go: the process-wide hash-mode flag
    namespaces,         \* MockCortexRuleClient.namespaces
    resource,           \* the resource's schema.ResourceData: namespace, id, config_yaml
    call,               \* the handler invocation the host has not collected yet
    config,             \* a config_yaml value the host is planning with
    prior               \* StateFunc applications made on config so far

vars == <<storeRulesSHA256, namespaces, resource, call, config, prior>>

----------------------------------------------------------------------------
(* Bounds *)

MaxGroups == 2      \* groups in one document
MaxRules == 2       \* rules in one document
MaxName == 2        \* group names are 0..MaxName

----------------------------------------------------------------------------
(* Expression texts.  The ruler's validator and the linter are libraries;   *)
(* the resource only sees whether they accept a text and, for the linter,   *)
(* the text it rewrites the expression to.                                  *)
(*   0        is accepted by neither,                                       *)
(*   1        passes the validator and is refused by the linter,            *)
(*   2, 4     are texts the linter leaves as they are,                      *)
(*   3        is another spelling of 2: the linter rewrites it to 2.        *)

\* loki ruler.validateRuleNode, seen from getRuleNamespaceFromYAML
ValidatorAccepts(e) == e >= 1

\* rules.RuleNamespace.LintExpressions: the parse of one expression
LinterAccepts(e) == e >= 2

\* rules.RuleNamespace.LintExpressions: the text an accepted expression is rewritten to
LintedExpr(e) == IF e = 3 THEN 2 ELSE e

----------------------------------------------------------------------------
(* Sequences *)

Range(s) == {s[i] : i \in 1..Len(s)}

SeqsUpTo(S, n) == UNION {[1..k -> S] : k \in 0..n}

IndexPerms(n) == {p \in [1..n -> 1..n] : \A i, j \in 1..n : p[i] = p[j] => i = j}

\* The names of the groups of a sequence of groups
NamesOfGroups(groups) == {groups[i].Name : i \in 1..Len(groups)}

\* The orders of the elements of s
SeqPerms(s) == {[i \in 1..Len(s) |-> s[p[i]]] : p \in IndexPerms(Len(s))}

----------------------------------------------------------------------------
(* Texts *)

NoText == [kind |-> "yaml", fmt |-> "user", nl |-> FALSE, docs |-> <<>>]

UserText(docs) == [kind |-> "yaml", fmt |-> "user", nl |-> TRUE, docs |-> docs]

GroupsDoc(groups) == [top |-> "groups", groups |-> groups]

\* yaml.Marshal of a []rwrulefmt.RuleGroup: one document, a sequence, newline at the end
MarshalGroups(groups) ==
    [kind |-> "yaml", fmt |-> "emit", nl |-> TRUE,
     docs |-> <<[top |-> "seq", groups |-> groups]>>]

\* yaml.Marshal of the map readRuleNamespace builds: m is [has |-> the map holds the
\* key "groups", groups |-> its value]
MarshalMap(m) ==
    [kind |-> "yaml", fmt |-> "emit", nl |-> TRUE,
     docs |-> <<IF m.has THEN [top |-> "groups", groups |-> m.groups]
                ELSE [top |-> "empty", groups |-> <<>>]>>]

\* namespaceBytes[:len(namespaceBytes)-1] when the last byte is '\n'
TrimNewline(t) == [t EXCEPT !.nl = FALSE]

\* fmt.Sprintf("%x", sha256.Sum256(bytes)): one digest per text, no collisions
Sha256Hex(t) == [t EXCEPT !.kind = "hex"]

PanicValue == [kind |-> "panic", fmt |-> "emit", nl |-> FALSE, docs |-> <<>>]

----------------------------------------------------------------------------
(* ruler.ValidateGroups: the set of errors for the groups of one document *)

ValidateGroups(groups) ==
      {[what |-> "empty name", at |-> i] : i \in {k \in 1..Len(groups) : groups[k].Name = 0}}
    \cup
      {[what |-> "repeated name", at |-> i] :
          i \in {k \in 1..Len(groups) : \E j \in 1..(k - 1) : groups[j].Name = groups[k].Name}}
    \cup
      {[what |-> "rule", at |-> i] :
          i \in {k \in 1..Len(groups) :
                   \E r \in 1..Len(groups[k].Rules) : ~ValidatorAccepts(groups[k].Rules[r].Expr)}}

\* decoder.Decode(&ns) with KnownFields(true) into a rules.RuleNamespace
Decodes(doc) == doc.top \in {"groups", "empty"}

\* The decode loop without the return on a validation error
RECURSIVE DecodeLoop_KeepsInvalid(_, _, _)
DecodeLoop_KeepsInvalid(docs, i, ruleNamespaces) ==
    IF i > Len(docs) THEN [err |-> "", ruleNamespaces |-> ruleNamespaces]
    ELSE IF ~Decodes(docs[i]) THEN [err |-> "yaml", ruleNamespaces |-> <<>>]
    ELSE DecodeLoop_KeepsInvalid(docs, i + 1,
                                 Append(ruleNamespaces, [Groups |-> docs[i].groups]))

RECURSIVE DecodeLoop(_, _, _)
DecodeLoop(docs, i, ruleNamespaces) ==
    IF i > Len(docs) THEN [err |-> "", ruleNamespaces |-> ruleNamespaces]
    ELSE IF ~Decodes(docs[i]) THEN [err |-> "yaml", ruleNamespaces |-> <<>>]
    ELSE IF ValidateGroups(docs[i].groups) # {}
         THEN [err |-> "validating rule groups", ruleNamespaces |-> <<>>]
    ELSE DecodeLoop(docs, i + 1, Append(ruleNamespaces, [Groups |-> docs[i].groups]))

EmptyNamespace == [Groups |-> <<>>]

\* getRuleNamespaceFromYAML returning the first namespace next to the error
\* when the text holds several
getRuleNamespaceFromYAML_ReturnsFirst(configYaml) ==
    IF configYaml.kind # "yaml"
    THEN [err |-> "yaml", ruleNamespace |-> EmptyNamespace]
    ELSE LET r == DecodeLoop(configYaml.docs, 1, <<>>) IN
         IF r.err # "" THEN [err |-> r.err, ruleNamespace |-> EmptyNamespace]
         ELSE IF Len(r.ruleNamespaces) > 1
              THEN [err |-> "more than one namespace", ruleNamespace |-> r.ruleNamespaces[1]]
         ELSE IF Len(r.ruleNamespaces) = 1
              THEN [err |-> "", ruleNamespace |-> r.ruleNamespaces[1]]
         ELSE [err |-> "no namespace definition found", ruleNamespace |-> EmptyNamespace]

getRuleNamespaceFromYAML(configYaml) ==
    IF configYaml.kind # "yaml"
    THEN [err |-> "yaml", ruleNamespace |-> EmptyNamespace]
    ELSE LET r == DecodeLoop(configYaml.docs, 1, <<>>) IN
         IF r.err # "" THEN [err |-> r.err, ruleNamespace |-> EmptyNamespace]
         ELSE IF Len(r.ruleNamespaces) > 1
              THEN [err |-> "more than one namespace", ruleNamespace |-> EmptyNamespace]
         ELSE IF Len(r.ruleNamespaces) = 1
              THEN [err |-> "", ruleNamespace |-> r.ruleNamespaces[1]]
         ELSE [err |-> "no namespace definition found", ruleNamespace |-> EmptyNamespace]

----------------------------------------------------------------------------
(* rules.RuleNamespace.LintExpressions: rewrites the expressions in place,  *)
(* group by group and rule by rule, and stops at the first one it refuses.  *)

RECURSIVE LintFrom(_, _, _)
LintFrom(groups, i, j) ==
    IF i > Len(groups) THEN [err |-> "", Groups |-> groups]
    ELSE IF j > Len(groups[i].Rules) THEN LintFrom(groups, i + 1, 1)
    ELSE IF ~LinterAccepts(groups[i].Rules[j].Expr) THEN [err |-> "lint", Groups |-> groups]
    ELSE LintFrom([groups EXCEPT ![i].Rules[j].Expr = LintedExpr(@)], i, j + 1)

LintExpressions(ruleNamespace) == LintFrom(ruleNamespace.Groups, 1, 1)

lintRuleNamespace(ruleNamespace) == LintExpressions(ruleNamespace)

----------------------------------------------------------------------------
(* sort.Slice on a slice of at most 12 elements is an insertion sort: each  *)
(* element moves left while it is less than its left neighbour.             *)
(* key[i] is what the less function reads of data[i].                       *)

RECURSIVE MoveLeft(_, _, _)
MoveLeft(data, key, j) ==
    IF j > 1 /\ key[j] < key[j - 1]
    THEN MoveLeft([data EXCEPT ![j] = data[j - 1], ![j - 1] = data[j]],
                  [key EXCEPT ![j] = key[j - 1], ![j - 1] = key[j]], j - 1)
    ELSE [data |-> data, key |-> key]

RECURSIVE InsertionSort(_, _, _)
InsertionSort(data, key, i) ==
    IF i > Len(data) THEN data
    ELSE LET m == MoveLeft(data, key, i) IN InsertionSort(m.data, m.key, i + 1)

SortSlice(data, key) == InsertionSort(data, key, 2)

SortGroups(groups) == SortSlice(groups, [i \in 1..Len(groups) |-> groups[i].Name])

SortRules(rules) == SortSlice(rules, [i \in 1..Len(rules) |-> rules[i].Expr])

----------------------------------------------------------------------------
(* NormalizeNamespaceYAML, with the flag it reads as a parameter *)

\* Normalize with the digest taken before the last newline is cut off
Normalize_HashesUntrimmed(configYaml, hashMode) ==
    LET ruleNamespace == getRuleNamespaceFromYAML(configYaml).ruleNamespace
        linted == LintExpressions(ruleNamespace)
        sorted == SortGroups(linted.Groups)
        groups == [i \in 1..Len(sorted) |-> [sorted[i] EXCEPT !.Rules = SortRules(@)]]
        namespaceBytes == MarshalGroups(groups)
    IN  IF linted.err # "" THEN PanicValue
        ELSE IF hashMode THEN Sha256Hex(namespaceBytes)
        ELSE TrimNewline(namespaceBytes)

Normalize(configYaml, hashMode) ==
    LET ruleNamespace == getRuleNamespaceFromYAML(configYaml).ruleNamespace
        linted == LintExpressions(ruleNamespace)
        sorted == SortGroups(linted.Groups)
        groups == [i \in 1..Len(sorted) |-> [sorted[i] EXCEPT !.Rules = SortRules(@)]]
        namespaceBytes == TrimNewline(MarshalGroups(groups))
    IN  IF linted.err # "" THEN PanicValue
        ELSE IF hashMode THEN Sha256Hex(namespaceBytes)
        ELSE namespaceBytes

NormalizeNamespaceYAML(configYaml) == Normalize(configYaml, storeRulesSHA256)

----------------------------------------------------------------------------
(* The functions of the schema that take no client: ValidateDiagFunc and    *)
(* DiffSuppressFunc of config_yaml.                                         *)

\* The Detail of the one diagnostic, "" for no diagnostics
validateNamespaceYAML(configYaml) == getRuleNamespaceFromYAML(configYaml).err

\* yaml.Unmarshal([]byte(configYaml), &parsedGroups): the first document of the
\* text, which has to be a sequence; no field check and no validation.  A text
\* without a document gives no groups and no error.
getRuleGroupsFromYaml(configYaml) ==
    IF configYaml.kind # "yaml" THEN [err |-> "yaml", parsedGroups |-> <<>>]
    ELSE IF configYaml.docs = <<>> THEN [err |-> "", parsedGroups |-> <<>>]
    ELSE IF configYaml.docs[1].top # "seq" THEN [err |-> "yaml", parsedGroups |-> <<>>]
    ELSE [err |-> "", parsedGroups |-> configYaml.docs[1].groups]

\* rules.CompareGroups: the rules are compared position by position
CompareGroups(groupOne, groupTwo) ==
    /\ Len(groupOne.Rules) = Len(groupTwo.Rules)
    /\ \A i \in 1..Len(groupOne.Rules) : groupOne.Rules[i] = groupTwo.Rules[i]

\* origMap[g.Name] = g for the groups of original in order: the last of a name stays
OrigMap(groups) ==
    [n \in NamesOfGroups(groups) |->
        groups[CHOOSE i \in 1..Len(groups) :
                  /\ groups[i].Name = n
                  /\ \A j \in (i + 1)..Len(groups) : groups[j].Name # n]]

\* The loop of rules.CompareNamespaces over the groups of new: TRUE while the
\* state is Unchanged; a group found in origMap is deleted from it
RECURSIVE CompareFrom(_, _, _, _)
CompareFrom(origMap, newGroups, i, unchanged) ==
    IF i > Len(newGroups) THEN unchanged /\ DOMAIN origMap = {}
    ELSE LET newGroup == newGroups[i] IN
         IF newGroup.Name \notin DOMAIN origMap
         THEN CompareFrom(origMap, newGroups, i + 1, FALSE)
         ELSE CompareFrom([n \in DOMAIN origMap \ {newGroup.Name} |-> origMap[n]],
                          newGroups, i + 1,
                          unchanged /\ CompareGroups(origMap[newGroup.Name], newGroup))

\* rules.CompareNamespaces(original, new).State == rules.Unchanged
CompareNamespaces(original, new) == CompareFrom(OrigMap(original.Groups), new.Groups, 1, TRUE)

\* diffNamespaceYAML returning true where a value fails to parse
diffNamespaceYAML_SuppressesUnparsed(oldValue, newValue) ==
    LET oldGroup == getRuleGroupsFromYaml(oldValue)
        newGroup == getRuleGroupsFromYaml(newValue)
    IN  IF oldGroup.err # "" THEN TRUE
        ELSE IF newGroup.err # "" THEN TRUE
        ELSE CompareNamespaces([Groups |-> oldGroup.parsedGroups],
                               [Groups |-> newGroup.parsedGroups])

diffNamespaceYAML(oldValue, newValue) ==
    LET oldGroup == getRuleGroupsFromYaml(oldValue)
        newGroup == getRuleGroupsFromYaml(newValue)
    IN  IF oldGroup.err # "" THEN FALSE
        ELSE IF newGroup.err # "" THEN FALSE
        ELSE CompareNamespaces([Groups |-> oldGroup.parsedGroups],
                               [Groups |-> newGroup.parsedGroups])

----------------------------------------------------------------------------
(* The ruler client.  c is the client as one handler invocation sees it:    *)
(*   namespaces  the rule groups the ruler holds, per namespace             *)
(*               ([has |-> the namespace is known, Groups |-> its groups]), *)
(*   calls       the calls made so far, in order, with their outcome,       *)
(*   failAt      the number of the call that fails with an error of the     *)
(*               remote (0: none does).  A failed call changes nothing.     *)
(*   failErr     the error a failing ListRules returns: the "not found"     *)
(*               sentinel or another error.  A failing CreateRuleGroup or   *)
(*               DeleteRuleGroup returns the other error.                   *)
(* Calls that do not fail behave as MockCortexRuleClient does.              *)

NamespaceIds == {"demo", "groups"}

NotFound == "requested resource not found"

RemoteError == "remote error"

NoNamespace == [has |-> FALSE, Groups |-> <<>>]

MockDeleteRuleGroup(m, namespace, groupName) ==
    IF m[namespace].has
    THEN [namespaces |->
              [m EXCEPT ![namespace].Groups = SelectSeq(@, LAMBDA g : g.Name # groupName)],
          err |-> IF \E g \in Range(m[namespace].Groups) : g.Name = groupName
                  THEN "" ELSE NotFound]
    ELSE [namespaces |-> m, err |-> NotFound]

MockCreateRuleGroup(m, namespace, group) ==
    LET deleted == MockDeleteRuleGroup(m, namespace, group.Name).namespaces
        added == IF deleted[namespace].has
                 THEN [deleted EXCEPT ![namespace].Groups = Append(@, group)]
                 ELSE [deleted EXCEPT ![namespace] = [has |-> TRUE, Groups |-> <<group>>]]
    IN  [namespaces |-> [added EXCEPT ![namespace].Groups = LintExpressions(added[namespace]).Groups],
         err |-> ""]

MockListRules(m, namespace) ==
    IF m[namespace].has
    THEN [ruleGroups |-> m[namespace].Groups, err |-> ""]
    ELSE [ruleGroups |-> <<>>, err |-> NotFound]

Logged(c, op, name, err) ==
    [c EXCEPT !.calls = Append(@, [op |-> op, name |-> name, err |-> err])]

Fails(c) == Len(c.calls) + 1 = c.failAt

CreateRuleGroup(c, namespace, group) ==
    IF Fails(c)
    THEN [c |-> Logged(c, "CreateRuleGroup", group.Name, RemoteError), err |-> RemoteError]
    ELSE LET r == MockCreateRuleGroup(c.namespaces, namespace, group) IN
         [c |-> Logged([c EXCEPT !.namespaces = r.namespaces], "CreateRuleGroup", group.Name, r.err),
          err |-> r.err]

DeleteRuleGroup(c, namespace, groupName) ==
    IF Fails(c)
    THEN [c |-> Logged(c, "DeleteRuleGroup", groupName, RemoteError), err |-> RemoteError]
    ELSE LET r == MockDeleteRuleGroup(c.namespaces, namespace, groupName) IN
         [c |-> Logged([c EXCEPT !.namespaces = r.namespaces], "DeleteRuleGroup", groupName, r.err),
          err |-> r.err]

\* The map ListRules returns has the one key namespace; ruleGroups is its value.
ListRules(c, namespace) ==
    IF Fails(c)
    THEN [c |-> Logged(c, "ListRules", 0, c.failErr), ruleGroups |-> <<>>, err |-> c.failErr]
    ELSE LET r == MockListRules(c.namespaces, namespace) IN
         [c |-> Logged(c, "ListRules", 0, r.err), ruleGroups |-> r.ruleGroups, err |-> r.err]

----------------------------------------------------------------------------
(* The handlers.  Each takes the client c and the resource data d and       *)
(* gives [c, d, diags]: diags is "" for no diagnostics, else the error.     *)
(* configYaml is d.Get("config_yaml"), the value of the plan: the text the  *)
(* user wrote.  d.config_yaml is what d.Set wrote, the value kept as state. *)

hash(namespace) == "id:" \o namespace

getRuleNamespace(c, d) == ListRules(c, d.namespace)

\* readRuleNamespace with the "not found" answer returned like any other error
readRuleNamespace_NotFoundIsError(c, d) ==
    LET r == ListRules(c, d.namespace)
        renamed == [has |-> d.namespace # "groups", groups |-> r.ruleGroups]
        normalized == NormalizeNamespaceYAML(MarshalMap(renamed))
    IN  IF r.err # "" THEN [c |-> r.c, d |-> d, diags |-> r.err]
        ELSE IF normalized = PanicValue THEN [c |-> r.c, d |-> d, diags |-> "panic"]
        ELSE [c |-> r.c, d |-> [d EXCEPT !.config_yaml = normalized], diags |-> ""]

readRuleNamespace(c, d) ==
    LET r == ListRules(c, d.namespace)
        \* remoteNamespaceRuleGroup["groups"] = remoteNamespaceRuleGroup[namespace]
        \* delete(remoteNamespaceRuleGroup, namespace)
        renamed == [has |-> d.namespace # "groups", groups |-> r.ruleGroups]
        normalized == NormalizeNamespaceYAML(MarshalMap(renamed))
    IN  IF r.err = NotFound THEN [c |-> r.c, d |-> [d EXCEPT !.id = ""], diags |-> ""]
        ELSE IF r.err # "" THEN [c |-> r.c, d |-> d, diags |-> r.err]
        ELSE IF normalized = PanicValue THEN [c |-> r.c, d |-> d, diags |-> "panic"]
        ELSE [c |-> r.c, d |-> [d EXCEPT !.config_yaml = normalized], diags |-> ""]

\* The apply loop without its early return: the later groups are applied too
\* and the first error is returned at the end
RECURSIVE ApplyGroups_KeepsGoing(_, _, _, _)
ApplyGroups_KeepsGoing(c, namespace, groups, i) ==
    IF i > Len(groups) THEN [c |-> c, err |-> ""]
    ELSE LET r == CreateRuleGroup(c, namespace, groups[i])
             rest == ApplyGroups_KeepsGoing(r.c, namespace, groups, i + 1)
         IN  [c |-> rest.c, err |-> IF r.err # "" THEN r.err ELSE rest.err]

\* for _, group := range ruleNamespace.Groups { err = client.CreateRuleGroup(...) }
RECURSIVE ApplyGroups(_, _, _, _)
ApplyGroups(c, namespace, groups, i) ==
    IF i > Len(groups) THEN [c |-> c, err |-> ""]
    ELSE LET r == CreateRuleGroup(c, namespace, groups[i]) IN
         IF r.err # "" THEN r ELSE ApplyGroups(r.c, namespace, groups, i + 1)

\* createRuleNamespace with d.SetId ahead of the apply loop
createRuleNamespace_SetsIdFirst(c, d, configYaml) ==
    LET parsed == getRuleNamespaceFromYAML(configYaml)
        linted == lintRuleNamespace(parsed.ruleNamespace)
        applied == ApplyGroups(c, d.namespace, linted.Groups, 1)
        withId == [d EXCEPT !.id = hash(d.namespace)]
    IN  IF parsed.err # "" THEN [c |-> c, d |-> d, diags |-> parsed.err]
        ELSE IF linted.err # "" THEN [c |-> c, d |-> d, diags |-> linted.err]
        ELSE IF applied.err # "" THEN [c |-> applied.c, d |-> withId, diags |-> applied.err]
        ELSE readRuleNamespace(applied.c, withId)

\* createRuleNamespace without the return on a lint error
createRuleNamespace_NoLintCheck(c, d, configYaml) ==
    LET parsed == getRuleNamespaceFromYAML(configYaml)
        linted == lintRuleNamespace(parsed.ruleNamespace)
        applied == ApplyGroups(c, d.namespace, linted.Groups, 1)
    IN  IF parsed.err # "" THEN [c |-> c, d |-> d, diags |-> parsed.err]
        ELSE IF applied.err # "" THEN [c |-> applied.c, d |-> d, diags |-> applied.err]
        ELSE readRuleNamespace(applied.c, [d EXCEPT !.id = hash(d.namespace)])

createRuleNamespace(c, d, configYaml) ==
    LET parsed == getRuleNamespaceFromYAML(configYaml)
        linted == lintRuleNamespace(parsed.ruleNamespace)
        applied == ApplyGroups(c, d.namespace, linted.Groups, 1)
    IN  IF parsed.err # "" THEN [c |-> c, d |-> d, diags |-> parsed.err]
        ELSE IF linted.err # "" THEN [c |-> c, d |-> d, diags |-> linted.err]
        ELSE IF applied.err # "" THEN [c |-> applied.c, d |-> d, diags |-> applied.err]
        ELSE readRuleNamespace(applied.c, [d EXCEPT !.id = hash(d.namespace)])

\* for _, name := range currentGroupsNames { if !slices.Contains(nsGroupNames, name) {
\*     errRaw := client.DeleteRuleGroup(...); if err != nil { return diag.FromErr(errRaw) } } }
\* err is the variable the listing before the loop assigned.
RECURSIVE DeleteAbsent(_, _, _, _, _, _)
DeleteAbsent(c, namespace, currentGroupsNames, nsGroupNames, err, i) ==
    IF i > Len(currentGroupsNames) THEN [c |-> c, diags |-> ""]
    ELSE IF currentGroupsNames[i] \in Range(nsGroupNames)
         THEN DeleteAbsent(c, namespace, currentGroupsNames, nsGroupNames, err, i + 1)
    ELSE LET r == DeleteRuleGroup(c, namespace, currentGroupsNames[i]) IN
         IF err # "" THEN [c |-> r.c, diags |-> r.err]
         ELSE DeleteAbsent(r.c, namespace, currentGroupsNames, nsGroupNames, err, i + 1)

updateRuleNamespace(c, d, configYaml) ==
    LET created == createRuleNamespace(c, d, configYaml)
        parsed == getRuleNamespaceFromYAML(configYaml)
        linted == lintRuleNamespace(parsed.ruleNamespace)
        nsGroupNames == [i \in 1..Len(linted.Groups) |-> linted.Groups[i].Name]
        listed == getRuleNamespace(created.c, created.d)
        currentGroupsNames == [i \in 1..Len(listed.ruleGroups) |-> listed.ruleGroups[i].Name]
        deleted == DeleteAbsent(listed.c, d.namespace, currentGroupsNames, nsGroupNames,
                                listed.err, 1)
    IN  IF created.diags # "" THEN created
        ELSE IF parsed.err # "" THEN [created EXCEPT !.diags = parsed.err]
        ELSE IF linted.err # "" THEN [created EXCEPT !.diags = linted.err]
        ELSE IF listed.err # "" THEN [c |-> listed.c, d |-> created.d, diags |-> listed.err]
        ELSE [c |-> deleted.c, d |-> created.d, diags |-> deleted.diags]

\* for _, groupName := range ruleGroups { err := client.DeleteRuleGroup(...) }
RECURSIVE DeleteGroups(_, _, _, _)
DeleteGroups(c, namespace, ruleGroups, i) ==
    IF i > Len(ruleGroups) THEN [c |-> c, err |-> ""]
    ELSE LET r == DeleteRuleGroup(c, namespace, ruleGroups[i].Name) IN
         IF r.err # "" THEN r ELSE DeleteGroups(r.c, namespace, ruleGroups, i + 1)

\* deleteRuleNamespace with d.SetId("") ahead of the removals
deleteRuleNamespace_ClearsIdFirst(c, d) ==
    LET listed == getRuleNamespace(c, d)
        deleted == DeleteGroups(listed.c, d.namespace, listed.ruleGroups, 1)
    IN  IF listed.err # "" THEN [c |-> listed.c, d |-> d, diags |-> listed.err]
        ELSE [c |-> deleted.c, d |-> [d EXCEPT !.id = ""], diags |-> deleted.err]

deleteRuleNamespace(c, d) ==
    LET listed == getRuleNamespace(c, d)
        deleted == DeleteGroups(listed.c, d.namespace, listed.ruleGroups, 1)
    IN  IF listed.err # "" THEN [c |-> listed.c, d |-> d, diags |-> listed.err]
        ELSE IF deleted.err # "" THEN [c |-> deleted.c, d |-> d, diags |-> deleted.err]
        ELSE [c |-> deleted.c, d |-> [d EXCEPT !.id = ""], diags |-> ""]

----------------------------------------------------------------------------
(* The resource's life: the host calls one handler at a time and collects   *)
(* its diagnostics before it calls the next.                                *)

LifeRules(e) == <<[Alert |-> "a", Expr |-> e]>>

\* The documents the handlers are given.  Every group has one rule; a group that
\* is in order has an expression the linter rewrites (3 becomes 2).
LifeGroup(n, e) == [Name |-> n, Rules |-> LifeRules(e)]

\* Documents whose groups are each in order; a name may be repeated.
WellFormedTexts ==
    {UserText(<<GroupsDoc(gs)>>) :
        gs \in SeqsUpTo({LifeGroup(n, 3) : n \in 1..MaxName}, MaxGroups)}

\* A group without a name; an expression the validator refuses; one the linter
\* refuses, alone and after a group that is in order; no document; two
\* documents; a key that RuleNamespace does not have.
BrokenTexts ==
    {UserText(<<GroupsDoc(<<LifeGroup(0, 3)>>)>>),
     UserText(<<GroupsDoc(<<LifeGroup(1, 0)>>)>>),
     UserText(<<GroupsDoc(<<LifeGroup(1, 1)>>)>>),
     UserText(<<GroupsDoc(<<LifeGroup(2, 3), LifeGroup(1, 1)>>)>>),
     UserText(<<>>),
     UserText(<<GroupsDoc(<<>>), GroupsDoc(<<>>)>>),
     UserText(<<[top |-> "unknown", groups |-> <<>>]>>)}

DesiredTexts == WellFormedTexts \cup BrokenTexts

\* What the ruler may hold for the namespace before the resource exists:
\* nothing, or groups of distinct names with expressions as the linter writes them.
RemoteGroups == {[Name |-> n, Rules |-> LifeRules(e)] : n \in 1..MaxName, e \in {2, 4}}

RemoteContents ==
    {NoNamespace}
    \cup {[has |-> TRUE, Groups |-> gs] :
             gs \in {s \in SeqsUpTo(RemoteGroups, MaxName) :
                        \A i, j \in 1..Len(s) : s[i].Name = s[j].Name => i = j}}

NewResource(namespace) == [namespace |-> namespace, id |-> "", config_yaml |-> NoText]

NoCall ==
    [op |-> "none", configYaml |-> NoText, fault |-> [at |-> 0, err |-> RemoteError],
     diags |-> "", calls |-> <<>>,
     before |-> [namespaces |-> [n \in NamespaceIds |-> NoNamespace],
                 resource |-> NewResource("demo")]]

\* The most client calls one handler makes: the groups applied, two listings, the deletes.
MaxCalls == MaxGroups + 2 + MaxName

\* The failure of the remote during one invocation: none, or one call
Faults ==
    {[at |-> 0, err |-> RemoteError]}
    \cup [at : 1..MaxCalls, err : {RemoteError, NotFound}]

Client(fault) ==
    [namespaces |-> namespaces, calls |-> <<>>, failAt |-> fault.at, failErr |-> fault.err]

\* The handler returns f = [c, d, diags]: the ruler and the resource data are as it
\* left them, and the invocation is kept until the host collects it.
Returned(op, configYaml, fault, f) ==
    /\ fault.at <= Len(f.c.calls)
    /\ fault.err = NotFound => f.c.calls[fault.at].op = "ListRules"
    /\ namespaces' = f.c.namespaces
    /\ resource' = f.d
    /\ call' = [op |-> op, configYaml |-> configYaml, fault |-> fault, diags |-> f.diags,
                calls |-> f.c.calls,
                before |-> [namespaces |-> namespaces, resource |-> resource]]
    /\ UNCHANGED <<storeRulesSHA256, config, prior>>

Create ==
    /\ call.op = "none"
    /\ resource.id = ""
    /\ \E configYaml \in DesiredTexts, fault \in Faults :
          Returned("create", configYaml, fault,
                   createRuleNamespace(Client(fault), resource, configYaml))

Read ==
    /\ call.op = "none"
    /\ resource.id # ""
    /\ \E fault \in Faults :
          Returned("read", NoText, fault, readRuleNamespace(Client(fault), resource))

Update ==
    /\ call.op = "none"
    /\ resource.id # ""
    /\ \E configYaml \in DesiredTexts, fault \in Faults :
          Returned("update", configYaml, fault,
                   updateRuleNamespace(Client(fault), resource, configYaml))

Delete ==
    /\ call.op = "none"
    /\ resource.id # ""
    /\ \E fault \in Faults :
          Returned("delete", NoText, fault, deleteRuleNamespace(Client(fault), resource))

\* The host takes the diagnostics; a resource whose ID is empty leaves the state.
HostCollect ==
    /\ call.op # "none"
    /\ call' = NoCall
    /\ resource' = IF resource.id = "" THEN NewResource(resource.namespace) ELSE resource
    /\ UNCHANGED <<storeRulesSHA256, namespaces, config, prior>>

\* The resource is declared for namespace, for which the ruler holds content
Declared(namespace, content) ==
    /\ namespaces = [n \in NamespaceIds |-> IF n = namespace THEN content ELSE NoNamespace]
    /\ resource = NewResource(namespace)

Init ==
    /\ storeRulesSHA256 \in BOOLEAN
    /\ \/ \E namespace \in NamespaceIds \ {"groups"} :
             \E content \in RemoteContents : Declared(namespace, content)
       \/ Declared("groups", NoNamespace)
    /\ call = NoCall
    /\ config = NoText
    /\ prior = <<>>

Next == Create \/ Read \/ Update \/ Delete \/ HostCollect

Spec == Init /\ [][Next]_vars

----------------------------------------------------------------------------
(* NormalizeNamespaceYAML as the host uses it: the StateFunc of             *)
(* config_yaml, applied to a value of the configuration.                    *)

\* Rules the validator and the linter accept: two alerts with the same
\* expression (a 2, b 2), a spelling the linter rewrites to it (a 3), another
\* expression (a 4)
NormRules ==
    {[Alert |-> "a", Expr |-> e] : e \in {2, 3, 4}} \cup {[Alert |-> "b", Expr |-> 2]}

\* The ways to cut a sequence of n rules into k groups
Splits(n, k) ==
    {f \in [1..k -> 0..n] : /\ \A i \in 1..(k - 1) : f[i] <= f[i + 1]
                            /\ k = 0 => n = 0
                            /\ k > 0 => f[k] = n}

GroupsOf(names, rules, f) ==
    [i \in 1..Len(names) |->
        [Name |-> names[i],
         Rules |-> SubSeq(rules, (IF i = 1 THEN 0 ELSE f[i - 1]) + 1, f[i])]]

\* Every sequence of at most maxGroups named groups holding at most maxRules
\* rules in all; a name may be repeated
NormGroupSeqs(maxGroups, maxRules) ==
    {GroupsOf(x[1], x[2], x[3]) :
        x \in UNION {{<<names, rules, f>> : f \in Splits(Len(rules), Len(names))} :
                        <<names, rules>> \in SeqsUpTo(1..MaxName, maxGroups)
                                             \X SeqsUpTo(NormRules, maxRules)}}

\* A group without a name; an expression the validator refuses; one the linter
\* refuses, alone and after a rule that is in order; no document; two
\* documents; a key that RuleNamespace does not have; a sequence of groups
\* with no mapping around it.
BrokenNormTexts ==
    {UserText(<<GroupsDoc(<<[Name |-> 0, Rules |-> <<[Alert |-> "a", Expr |-> 2]>>]>>)>>),
     UserText(<<GroupsDoc(<<[Name |-> 1, Rules |-> <<[Alert |-> "a", Expr |-> 0]>>]>>)>>),
     UserText(<<GroupsDoc(<<[Name |-> 1, Rules |-> <<[Alert |-> "a", Expr |-> 1]>>]>>)>>),
     UserText(<<GroupsDoc(<<[Name |-> 1, Rules |-> <<[Alert |-> "a", Expr |-> 3],
                                                     [Alert |-> "a", Expr |-> 1]>>]>>)>>),
     UserText(<<>>),
     UserText(<<GroupsDoc(<<>>), GroupsDoc(<<>>)>>),
     UserText(<<[top |-> "unknown", groups |-> <<>>]>>),
     UserText(<<[top |-> "seq", groups |-> <<>>]>>)}

NormTexts(maxGroups, maxRules) ==
    {UserText(<<GroupsDoc(gs)>>) : gs \in NormGroupSeqs(maxGroups, maxRules)}
    \cup BrokenNormTexts

\* The documents that differ from the one of text t only in the order of the
\* groups and of the rules inside each group
Reorderings(t) ==
    IF t.kind # "yaml" \/ Len(t.docs) # 1 THEN {t}
    ELSE LET groups == t.docs[1].groups IN
         {[t EXCEPT !.docs[1].groups = gs] :
             gs \in UNION {{rs \in [1..Len(groups) -> UNION {{[Name |-> g.Name, Rules |-> r] :
                                                                  r \in SeqPerms(g.Rules)} :
                                                               g \in Range(groups)}] :
                              \A i \in 1..Len(groups) :
                                  /\ rs[i].Name = p[i].Name
                                  /\ rs[i].Rules \in SeqPerms(p[i].Rules)} :
                           p \in SeqPerms(groups)}}

StateFunc ==
    /\ Len(prior) < 2
    /\ prior # <<>> => prior[Len(prior)].in # config
    /\ prior' = Append(prior, [in |-> config, out |-> NormalizeNamespaceYAML(config)])
    /\ UNCHANGED <<storeRulesSHA256, namespaces, resource, call, config>>

\* The host plans with the value it stored
Reapply ==
    /\ Len(prior) = 1
    /\ config = prior[1].in
    /\ prior[1].out # PanicValue
    /\ config' = prior[1].out
    /\ UNCHANGED <<storeRulesSHA256, namespaces, resource, call, prior>>

\* The user writes the groups and rules in another order
Reorder ==
    /\ Len(prior) = 1
    /\ config = prior[1].in
    /\ config' \in Reorderings(config) \ {config}
    /\ UNCHANGED <<storeRulesSHA256, namespaces, resource, call, prior>>

NormInit ==
    /\ storeRulesSHA256 \in BOOLEAN
    /\ namespaces = [n \in NamespaceIds |-> NoNamespace]
    /\ resource = NewResource("demo")
    /\ call = NoCall
    /\ config \in NormTexts(MaxGroups, MaxRules)
    /\ prior = <<>>

NormNext == StateFunc \/ Reapply \/ Reorder

SpecNorm == NormInit /\ [][NormNext]_vars

----------------------------------------------------------------------------
(* The host planning a change of config_yaml: it validates the value of the *)
(* configuration (ValidateDiagFunc), formats it (StateFunc) and asks        *)
(* whether the difference to the value in the state is to be suppressed     *)
(* (DiffSuppressFunc).  The provider may be configured again in between.    *)

PlanRules == <<[Alert |-> "a", Expr |-> 4], [Alert |-> "b", Expr |-> 3]>>

\* One group per name, and the group of name 1 with its rules the other way round
PlanGroups ==
    {[Name |-> n, Rules |-> PlanRules] : n \in 1..MaxName}
    \cup {[Name |-> 1, Rules |-> <<PlanRules[2], PlanRules[1]>>]}

PlanGroupSeqs == SeqsUpTo(PlanGroups, MaxGroups)

PlanRule(e) == [Alert |-> "a", Expr |-> e]

\* No document; the mapping {}; a key RuleNamespace does not have; a group
\* without a name; an expression the validator refuses; one the linter refuses;
\* two documents: both in order, the second or the first with an unknown key,
\* the second failing validation
BrokenPlanTexts ==
    {UserText(<<>>),
     UserText(<<[top |-> "empty", groups |-> <<>>]>>),
     UserText(<<[top |-> "unknown", groups |-> <<>>]>>),
     UserText(<<GroupsDoc(<<[Name |-> 0, Rules |-> <<PlanRule(2)>>]>>)>>),
     UserText(<<GroupsDoc(<<[Name |-> 1, Rules |-> <<PlanRule(0)>>]>>)>>),
     UserText(<<GroupsDoc(<<[Name |-> 1, Rules |-> <<PlanRule(1)>>]>>)>>),
     UserText(<<GroupsDoc(<<[Name |-> 1, Rules |-> PlanRules]>>),
                GroupsDoc(<<[Name |-> 2, Rules |-> PlanRules]>>)>>),
     UserText(<<GroupsDoc(<<[Name |-> 1, Rules |-> PlanRules]>>),
                [top |-> "unknown", groups |-> <<>>]>>),
     UserText(<<[top |-> "unknown", groups |-> <<>>],
                GroupsDoc(<<[Name |-> 1, Rules |-> PlanRules]>>)>>),
     UserText(<<GroupsDoc(<<[Name |-> 1, Rules |-> PlanRules]>>),
                GroupsDoc(<<[Name |-> 0, Rules |-> PlanRules]>>)>>)}

\* The values of the configuration: a namespace document, or the groups alone
PlanTexts ==
    {UserText(<<GroupsDoc(gs)>>) : gs \in PlanGroupSeqs}
    \cup {UserText(<<[top |-> "seq", groups |-> gs]>>) : gs \in PlanGroupSeqs}
    \cup BrokenPlanTexts

\* The values the state can hold: what NormalizeNamespaceYAML returned, in either mode
StoredTexts == {Normalize(t, h) : t \in PlanTexts, h \in BOOLEAN} \ {PanicValue}

\* The call the host made last: its arguments and what it returned.  parsed is
\* what getRuleNamespaceFromYAML returned to validateNamespaceYAML.
PlanCall(op, old, new, parsed, out) ==
    [op |-> op, old |-> old, new |-> new, parsed |-> parsed, out |-> out]

ValidateDiagFunc ==
    /\ call.op # "validate"
    /\ call' = PlanCall("validate", NoText, config, getRuleNamespaceFromYAML(config),
                        validateNamespaceYAML(config))
    /\ UNCHANGED <<storeRulesSHA256, namespaces, resource, config, prior>>

PlanStateFunc ==
    /\ Len(prior) < 2
    /\ prior' = Append(prior, [in |-> config, hash |-> storeRulesSHA256,
                               out |-> NormalizeNamespaceYAML(config)])
    /\ UNCHANGED <<storeRulesSHA256, namespaces, resource, call, config>>

\* old is the value of the state; new is the value of the configuration as it
\* is written or as StateFunc returned it
DiffSuppressFunc ==
    /\ call.op # "diff"
    /\ \E old \in StoredTexts \cup Reorderings(config),
          new \in {config, NormalizeNamespaceYAML(config)} \ {PanicValue} :
          call' = PlanCall("diff", old, new, getRuleNamespaceFromYAML(NoText),
                           diffNamespaceYAML(old, new))
    /\ UNCHANGED <<storeRulesSHA256, namespaces, resource, config, prior>>

\* storeRulesSHA256 = d.Get("store_rules_sha256").(bool)
Configure ==
    /\ storeRulesSHA256' = ~storeRulesSHA256
    /\ UNCHANGED <<namespaces, resource, call, config, prior>>

PlanInit ==
    /\ storeRulesSHA256 \in BOOLEAN
    /\ namespaces = [n \in NamespaceIds |-> NoNamespace]
    /\ resource = NewResource("demo")
    /\ call = PlanCall("none", NoText, NoText, getRuleNamespaceFromYAML(NoText), "")
    /\ config \in PlanTexts
    /\ prior = <<>>

PlanNext == ValidateDiagFunc \/ PlanStateFunc \/ DiffSuppressFunc \/ Configure

SpecPlan == PlanInit /\ [][PlanNext]_vars

----------------------------------------------------------------------------
(* Reconciliation run again: the host applies one document, config, until   *)
(* it is applied without diagnostics.  A resource without an ID is created, *)
(* one with an ID is updated.  prior keeps, for every run the host has      *)
(* collected, the handler, its diagnostics and what the ruler held before.  *)

RunCreate ==
    /\ call.op = "none"
    /\ resource.id = ""
    /\ Len(prior) < 2
    /\ \E fault \in Faults :
          Returned("create", config, fault,
                   createRuleNamespace(Client(fault), resource, config))

RunUpdate ==
    /\ call.op = "none"
    /\ resource.id # ""
    /\ Len(prior) < 2
    /\ \E fault \in Faults :
          Returned("update", config, fault,
                   updateRuleNamespace(Client(fault), resource, config))

RunCollect ==
    /\ call.op # "none"
    /\ call' = NoCall
    /\ resource' = IF resource.id = "" THEN NewResource(resource.namespace) ELSE resource
    /\ prior' = Append(prior, [op |-> call.op, diags |-> call.diags,
                               before |-> call.before.namespaces])
    /\ UNCHANGED <<storeRulesSHA256, namespaces, config>>

RerunInit ==
    /\ storeRulesSHA256 \in BOOLEAN
    /\ \E content \in RemoteContents : Declared("demo", content)
    /\ call = NoCall
    /\ config \in DesiredTexts
    /\ prior = <<>>

RerunNext == RunCreate \/ RunUpdate \/ RunCollect

SpecRerun == RerunInit /\ [][RerunNext]_vars

----------------------------------------------------------------------------
(* What the claims speak of *)

\* The document parses, validates and lints
ValidDocument(configYaml) ==
    LET parsed == getRuleNamespaceFromYAML(configYaml) IN
    parsed.err = "" /\ lintRuleNamespace(parsed.ruleNamespace).err = ""

\* The error create and update owe an invalid document
DocumentError(configYaml) ==
    LET parsed == getRuleNamespaceFromYAML(configYaml) IN
    IF parsed.err # "" THEN parsed.err ELSE lintRuleNamespace(parsed.ruleNamespace).err

\* The groups of a valid document as they are applied: linted, in document order
DesiredGroups(configYaml) ==
    lintRuleNamespace(getRuleNamespaceFromYAML(configYaml).ruleNamespace).Groups

NamesOf(groups) == {groups[i].Name : i \in 1..Len(groups)}

\* The numbers of the calls of the invocation that are calls of op
CallsOf(op) == {i \in 1..Len(call.calls) : call.calls[i].op = op}

RemoteBefore == call.before.namespaces[resource.namespace]

RemoteNow == namespaces[resource.namespace]

Applying == call.op \in {"create", "update"}

----------------------------------------------------------------------------
\* C1: in updateRuleNamespace, when DeleteRuleGroup fails for a remote group
\* that is absent from the desired document, the update stops there and returns
\* that error, and no group is applied again after it.
C1_DeleteFailureAbortsUpdate ==
    call.op = "update" =>
        \A i \in CallsOf("DeleteRuleGroup") :
            call.calls[i].err # "" =>
                /\ call.diags = call.calls[i].err
                /\ i = Len(call.calls)

\* C2: a successful update with document x issues DeleteRuleGroup exactly once
\* for each group name the ruler lists that is not a name of x and never for a
\* name of x, and afterwards the ruler holds exactly the group names of x.
C2_UpdateDeletesExactlyTheAbsent ==
    (call.op = "update" /\ call.diags = "") =>
        LET desired == NamesOf(DesiredGroups(call.configYaml))
            listed == NamesOf(RemoteBefore.Groups) \cup desired
        IN  /\ \A n \in 0..MaxName :
                  Cardinality({i \in CallsOf("DeleteRuleGroup") : call.calls[i].name = n})
                      = IF n \in listed \ desired THEN 1 ELSE 0
            /\ RemoteNow.has
            /\ NamesOf(RemoteNow.Groups) = desired

\* C3: after a successful create or update with document x the config_yaml kept
\* as state is NormalizeNamespaceYAML(x), whatever the ruler held before and in
\* either hash mode.
C3_StateIsCanonicalDesired ==
    (Applying /\ call.diags = "" /\ resource.id # "") =>
        resource.config_yaml = NormalizeNamespaceYAML(call.configYaml)

\* C4: when the desired document fails parsing, group validation or linting,
\* create and update return that error and call the ruler not at all: the
\* ruler and the resource data are as they were.
C4_InvalidDocumentNoRemoteCalls ==
    (Applying /\ ~ValidDocument(call.configYaml)) =>
        /\ call.diags = DocumentError(call.configYaml)
        /\ call.diags # ""
        /\ call.calls = <<>>
        /\ namespaces = call.before.namespaces
        /\ resource = call.before.resource

W4_InvalidDocumentRefused ==
    /\ call.op = "update"
    /\ call.diags = "lint"
    /\ Len(call.configYaml.docs[1].groups) = 2
    /\ RemoteBefore.Groups # <<>>

\* C5: create and update apply the groups in document order; when
\* CreateRuleGroup fails for the k-th group the handler returns that error at
\* once: the k-th call is the last call, no listing or delete is made, and the
\* k-1 groups applied before it stay in the ruler.
C5_ApplyFailureAbortsKeepsEarlier ==
    Applying =>
        LET groups == DesiredGroups(call.configYaml)
            creates == CallsOf("CreateRuleGroup")
        IN  /\ creates = 1..Cardinality(creates)
            /\ \A i \in creates : i <= Len(groups) /\ call.calls[i].name = groups[i].Name
            /\ \A k \in creates :
                  call.calls[k].err # "" =>
                      /\ k = Len(call.calls)
                      /\ call.diags = call.calls[k].err
                      /\ resource = call.before.resource
                      /\ \A i \in 1..(k - 1) :
                            /\ call.calls[i].err = ""
                            /\ groups[i] \in Range(RemoteNow.Groups)
                      /\ \A g \in Range(RemoteBefore.Groups) :
                            g.Name \notin {groups[i].Name : i \in 1..(k - 1)}
                                => g \in Range(RemoteNow.Groups)

W5_SecondGroupFailed ==
    /\ call.op = "create"
    /\ Len(call.calls) = 2
    /\ call.calls[2].op = "CreateRuleGroup"
    /\ call.calls[2].err = RemoteError
    /\ call.diags = RemoteError
    /\ RemoteBefore.Groups # <<>>
    /\ DesiredGroups(call.configYaml)[1] \in Range(RemoteNow.Groups)

\* C6: the delete lifecycle issues DeleteRuleGroup for the groups the ruler
\* lists, in order; at the first removal that fails it returns that error,
\* removes no more and keeps the resource ID, the groups removed before staying
\* removed; when every removal succeeds the ID is cleared and the ruler holds
\* no group for the namespace.
C6_DeleteLifecycle ==
    (call.op = "delete" /\ Len(call.calls) >= 1 /\ call.calls[1].err = "") =>
        LET listed == RemoteBefore.Groups
            deletes == Len(call.calls) - 1
            failed == {i \in 1..deletes : call.calls[i + 1].err # ""}
        IN  /\ deletes <= Len(listed)
            /\ \A i \in 1..deletes :
                  /\ call.calls[i + 1].op = "DeleteRuleGroup"
                  /\ call.calls[i + 1].name = listed[i].Name
            /\ failed = {} =>
                  /\ deletes = Len(listed)
                  /\ call.diags = ""
                  /\ resource.id = ""
                  /\ RemoteNow.Groups = <<>>
            /\ failed # {} =>
                  /\ failed = {deletes}
                  /\ call.diags = call.calls[deletes + 1].err
                  /\ resource = call.before.resource
                  /\ resource.id # ""
                  /\ RemoteNow.Groups = SubSeq(listed, deletes, Len(listed))

W6_SecondRemovalFailed ==
    /\ call.op = "delete"
    /\ Len(call.calls) = 3
    /\ call.calls[2].err = ""
    /\ call.calls[3].err = RemoteError
    /\ call.diags = RemoteError
    /\ resource.id # ""
    /\ Len(RemoteBefore.Groups) = 2
    /\ Len(RemoteNow.Groups) = 1

\* C7: in the read lifecycle a "not found" answer of ListRules gives no error
\* and clears the resource ID without touching config_yaml; any other error of
\* ListRules is returned, with ID and config_yaml as they were.
C7_ReadNotFoundClearsId ==
    (call.op = "read" /\ Len(call.calls) >= 1 /\ call.calls[1].err # "") =>
        /\ Len(call.calls) = 1
        /\ namespaces = call.before.namespaces
        /\ resource.config_yaml = call.before.resource.config_yaml
        /\ call.calls[1].err = NotFound => call.diags = "" /\ resource.id = ""
        /\ call.calls[1].err # NotFound =>
              call.diags = call.calls[1].err /\ resource = call.before.resource

W7_ReadNotFound ==
    /\ call.op = "read"
    /\ call.calls = <<[op |-> "ListRules", name |-> 0, err |-> NotFound]>>
    /\ call.diags = ""
    /\ call.before.resource.id # ""
    /\ resource.id = ""
    /\ resource.config_yaml.docs # <<>>

\* C8: "not found" from a listing of the namespace's groups is no error in any
\* handler that lists them (read, the listing of delete, the re-fetch of
\* update); any other error of the listing is returned as it is.
C8_NotFoundIsNoErrorEverywhere ==
    \A i \in CallsOf("ListRules") :
        /\ call.calls[i].err = NotFound => call.diags = ""
        /\ call.calls[i].err \notin {"", NotFound} => call.diags = call.calls[i].err

----------------------------------------------------------------------------
\* C9: with hash mode off, NormalizeNamespaceYAML applied to what it returned
\* for a valid document returns the same text again.
C9_NormalizeIdempotent ==
    (/\ Len(prior) = 2
     /\ ~storeRulesSHA256
     /\ ValidDocument(prior[1].in)
     /\ prior[2].in = prior[1].out) =>
        prior[2].out = prior[1].out

\* Ascending by name, and inside each group ascending by (linted) expression
Ascending(groups) ==
    /\ \A i \in 1..(Len(groups) - 1) : groups[i].Name <= groups[i + 1].Name
    /\ \A i \in 1..Len(groups) :
          \A j \in 1..(Len(groups[i].Rules) - 1) :
              groups[i].Rules[j].Expr <= groups[i].Rules[j + 1].Expr

\* C10: for a valid document and any reordering of its groups and of the rules
\* inside each group, NormalizeNamespaceYAML returns the same value, the groups
\* ascending by name and the rules ascending by expression.
C10_NormalizeOrderIndependent ==
    (/\ Len(prior) = 2
     /\ ValidDocument(prior[1].in)
     /\ prior[2].in # prior[1].in
     /\ prior[2].in \in Reorderings(prior[1].in)) =>
        /\ prior[2].out = prior[1].out
        /\ Ascending(prior[1].out.docs[1].groups)
        /\ Ascending(prior[2].out.docs[1].groups)

----------------------------------------------------------------------------
\* C11: diffNamespaceYAML never raises: it returns a boolean for every pair of
\* values, and it returns false (the difference is not suppressed) whenever the
\* old or the new value fails to parse, hex digests of the hash mode included.
C11_DiffReturnsFalseOnUnparsed ==
    call.op = "diff" =>
        /\ call.out \in BOOLEAN
        /\ (\/ getRuleGroupsFromYaml(call.old).err # ""
            \/ getRuleGroupsFromYaml(call.new).err # "") => call.out = FALSE

W11_DigestAgainstGroups ==
    /\ call.op = "diff"
    /\ call.old.kind = "hex"
    /\ call.new.kind = "yaml"
    /\ getRuleGroupsFromYaml(call.new).parsedGroups # <<>>
    /\ call.out = FALSE

\* C12: for any document x and any reordering of its groups and of the rules
\* inside each group, diffNamespaceYAML of x and the reordered x returns true.
C12_DifferOrderInsensitive ==
    (call.op = "diff" /\ call.old \in Reorderings(call.new)) => call.out = TRUE

----------------------------------------------------------------------------
\* C13: getRuleNamespaceFromYAML returns a namespace only for a text of exactly
\* one document: with no document it fails with the "no namespace" error, with
\* two or more it fails with the "more than one namespace" error, and in
\* neither case does it return the groups of a document.
C13_ExactlyOneDocument ==
    call.op = "validate" =>
        LET n == Len(call.new.docs) IN
        /\ call.parsed.err = "" => n = 1
        /\ n = 0 => call.parsed.err = "no namespace definition found"
        /\ n >= 2 => call.parsed.err = "more than one namespace"
        /\ n # 1 => call.parsed.ruleNamespace = EmptyNamespace

\* The error of the first document that does not decode or validate, "" if all do
RECURSIVE FirstDocumentError(_, _)
FirstDocumentError(docs, i) ==
    IF i > Len(docs) THEN ""
    ELSE IF ~Decodes(docs[i]) THEN "yaml"
    ELSE IF ValidateGroups(docs[i].groups) # {} THEN "validating rule groups"
    ELSE FirstDocumentError(docs, i + 1)

\* C13 as amended: as C13, but with two or more documents the error is "more
\* than one namespace" only when every document decodes and validates;
\* otherwise it is the error of the first document that does not.
C13_OneDocumentOrFirstError ==
    call.op = "validate" =>
        LET n == Len(call.new.docs)
            first == FirstDocumentError(call.new.docs, 1)
        IN  /\ call.parsed.err = "" => n = 1
            /\ n = 0 => call.parsed.err = "no namespace definition found"
            /\ n >= 2 => call.parsed.err = IF first = "" THEN "more than one namespace"
                                           ELSE first
            /\ n # 1 => call.parsed.ruleNamespace = EmptyNamespace
            /\ call.out = call.parsed.err

W13_TwoDocumentsRefused ==
    /\ call.op = "validate"
    /\ Len(call.new.docs) = 2
    /\ \A i \in 1..2 : call.new.docs[i].groups # <<>>
    /\ call.parsed.err = "more than one namespace"
    /\ call.parsed.ruleNamespace = EmptyNamespace

----------------------------------------------------------------------------
\* A text of one document that decodes and whose groups fail ruler.ValidateGroups
FailsValidation(configYaml) ==
    /\ configYaml.kind = "yaml"
    /\ Len(configYaml.docs) = 1
    /\ Decodes(configYaml.docs[1])
    /\ ValidateGroups(configYaml.docs[1].groups) # {}

\* C14: a well-formed text of one document whose groups fail validation is
\* still returned by the parser as a RuleNamespace holding its groups, while
\* create and update on the same text fail.
C14_ValidationNotFatalToParsing ==
    (Applying /\ FailsValidation(call.configYaml)) =>
        /\ getRuleNamespaceFromYAML(call.configYaml).ruleNamespace.Groups
               = call.configYaml.docs[1].groups
        /\ call.diags # ""

\* C14 as amended: for such a text the parser returns the validation error and
\* the zero RuleNamespace, and create and update fail with that error before
\* any call of the ruler.
C14_ValidationFatalToParsing ==
    (Applying /\ FailsValidation(call.configYaml)) =>
        LET parsed == getRuleNamespaceFromYAML(call.configYaml) IN
        /\ parsed.err = "validating rule groups"
        /\ parsed.ruleNamespace = EmptyNamespace
        /\ call.diags = parsed.err
        /\ call.calls = <<>>

W14_UnnamedGroupRefused ==
    /\ call.op = "create"
    /\ FailsValidation(call.configYaml)
    /\ call.configYaml.docs[1].groups[1].Name = 0
    /\ LinterAccepts(call.configYaml.docs[1].groups[1].Rules[1].Expr)
    /\ call.diags = "validating rule groups"
    /\ resource.id = ""

----------------------------------------------------------------------------
\* C15: for every value, NormalizeNamespaceYAML with the hash mode on returns
\* the hex SHA-256 of exactly the text it returns for the same value with the
\* hash mode off, and in each mode it returns the same for the same value.
C15_HashOfPlainOutput ==
    \A i, j \in 1..Len(prior) :
        prior[i].in = prior[j].in =>
            /\ prior[i].hash = prior[j].hash => prior[i].out = prior[j].out
            /\ (prior[i].hash /\ ~prior[j].hash /\ prior[j].out # PanicValue) =>
                  /\ prior[j].out.kind = "yaml"
                  /\ prior[i].out.kind = "hex"
                  /\ prior[i].out = Sha256Hex(prior[j].out)

W15_BothModesApplied ==
    /\ Len(prior) = 2
    /\ prior[1].hash /\ ~prior[2].hash
    /\ prior[1].in = prior[2].in
    /\ prior[2].out.kind = "yaml"
    /\ ~prior[2].out.nl
    /\ prior[2].out.docs[1].groups # <<>>
    /\ prior[1].out.kind = "hex"

\* C16: NormalizeNamespaceYAML returns a string for every value, also one that
\* fails to parse, to validate or to lint; it never panics.
C16_NormalizeNeverPanics ==
    \A i \in 1..Len(prior) : prior[i].out # PanicValue

----------------------------------------------------------------------------
\* C18: for every namespace identifier, the literal "groups" included, a
\* successful read stores as config_yaml the canonical form of exactly the
\* groups ListRules returned for the namespace.
C18_ReadStoresListedGroups ==
    (call.op = "read" /\ call.diags = "" /\ resource.id # "") =>
        resource.config_yaml
            = Normalize(UserText(<<GroupsDoc(RemoteNow.Groups)>>), storeRulesSHA256)

----------------------------------------------------------------------------
\* C19: createRuleNamespace sets the resource ID only after every group of the
\* document was applied: when parsing, linting or a CreateRuleGroup call fails,
\* the ID and the stored config_yaml are as before, and the groups applied
\* before the failure are in the ruler.
C19_IdSetAfterAllApplied ==
    call.op = "create" =>
        LET groups == DesiredGroups(call.configYaml)
            creates == CallsOf("CreateRuleGroup")
            applied == {i \in creates : call.calls[i].err = ""}
        IN  /\ (~ValidDocument(call.configYaml) \/ applied # creates) =>
                  /\ call.diags # ""
                  /\ resource.id = call.before.resource.id
                  /\ resource.config_yaml = call.before.resource.config_yaml
            /\ resource.id # call.before.resource.id =>
                  /\ ValidDocument(call.configYaml)
                  /\ applied = 1..Len(groups)
            /\ applied # creates =>
                  \A i \in applied : groups[i] \in Range(RemoteNow.Groups)

W19_NoIdAfterFailedApply ==
    /\ call.op = "create"
    /\ ~RemoteBefore.has
    /\ Len(DesiredGroups(call.configYaml)) = 2
    /\ Len(call.calls) = 2
    /\ call.calls[1].err = ""
    /\ call.calls[2].err = RemoteError
    /\ resource.id = ""
    /\ resource.config_yaml = NoText
    /\ Len(RemoteNow.Groups) = 1

----------------------------------------------------------------------------
\* What one run of the handler op with the document configYaml leaves in the
\* ruler when no call fails, begun with the ruler holding m
SingleRun(op, m, d, configYaml) ==
    LET c == [namespaces |-> m, calls |-> <<>>, failAt |-> 0, failErr |-> RemoteError]
    IN  IF op = "create" THEN createRuleNamespace(c, d, configYaml).c.namespaces
        ELSE updateRuleNamespace(c, d, configYaml).c.namespaces

\* C17: after an earlier run of create or update with the document x, complete
\* or failed part-way, a run of create or update with x that returns without
\* diagnostics leaves every group name of x in the namespace exactly once, with
\* the content x gives it, and the namespace holds the set of groups that one
\* run in which nothing fails leaves.
C17_RerunIsSafe ==
    (Applying /\ call.diags = "" /\ prior # <<>>) =>
        LET groups == DesiredGroups(config)
            now == RemoteNow.Groups
            single == SingleRun(call.op, prior[1].before, call.before.resource, config)
        IN  /\ \A i \in 1..Len(groups) :
                  /\ Cardinality({k \in 1..Len(now) : now[k].Name = groups[i].Name}) = 1
                  /\ groups[i] \in Range(now)
            /\ Range(now) = Range(single[resource.namespace].Groups)

====
